---- MODULE Spec2Model ----
(***************************************************************************)
(* The WebSocket subscription multiplexer of the Ekiden SDK (src/src/ws.rs):*)
(* WebSocketClient (connection status, send handle, subscription registry), *)
(* the detached receive loops started by connect, the dispatcher            *)
(* process_message, and the receivers handed out by subscribe.              *)
(*                                                                         *)
(* Granularity.  Every public call is an async fn; a step of the model is   *)
(* the code between two acquisitions of a shared lock (or a network await)  *)
(* after which another task can observe a different state.  connect and     *)
(* disconnect take &mut self, so they exclude every other call on the       *)
(* client, but not the receive loops, which own clones of the registry and  *)
(* of the status cell.  A receive loop takes a frame and handles it in one  *)
(* step: the arrival time of a frame is the transport's choice, so taking   *)
(* it at the moment the loop acquires the lock loses no behaviour.          *)
(***************************************************************************)
EXTENDS Integers, Sequences, FiniteSets, TLC

\* ------------------------------------------------------------------ bounds
\* concurrent caller tasks that hold &self
NumTasks == 1
\* successful handshakes (each spawns one receive loop)
MaxConns == 1
\* broadcast channels created by subscribe over a run
MaxEndpoints == 2
\* Event frames that hit a registered channel over a run
MaxEvents == 3
\* the capacity handed to broadcast::channel; the code passes 1000, the model
\* a small number that, like 1000, is not a power of two
Capacity == 3
\* Event frames over a run in which a receiver falls behind
MaxLagEvents == 5
\* characters of a market or user identifier
MaxIdLen == 2
\* control frames the callers start writing over a run
MaxRequests == 2

Tasks == 1 .. NumTasks
Conns == 1 .. MaxConns

\* ------------------------------------------------------------ channel names
Channels == {"orderbook/0xA", "trades/0xA"}
\* the one channel of the runs with concurrent callers or two transports
WireChannels == {"orderbook/0xA"}
\* a well-formed channel name the client never registers
UnknownChannel == "user/0xB"

\* -------------------------------------------------------------- WsEvent
\* the decoded payload (types.rs WsEvent).  The code passes payloads
\* through without reading them, so one variant is enough; the server stamps
\* the k-th event it sends with timestamp k, which tells any two apart
Trade(k) == [variant |-> "Trade", timestamp |-> k]

\* serde tag of each WsEvent variant
EventTag(variant) ==
    CASE variant = "OrderbookSnapshot" -> "orderbook_snapshot"
      [] variant = "OrderbookUpdate" -> "orderbook_update"
      [] variant = "Trade" -> "trade"
      [] variant = "OrderUpdate" -> "order_update"
      [] variant = "PositionUpdate" -> "position_update"
      [] variant = "BalanceUpdate" -> "balance_update"

EventVariants ==
    {"OrderbookSnapshot", "OrderbookUpdate", "Trade", "OrderUpdate",
     "PositionUpdate", "BalanceUpdate"}

\* the JSON of a payload: its tag and its fields
EncodeEvent(ev) == [type |-> EventTag(ev.variant), timestamp |-> ev.timestamp]

\* serde's decoding of the "data" member: the tag selects the variant
DecodeEvent(json) ==
    IF \E v \in EventVariants : EventTag(v) = json.type
    THEN [ok |-> TRUE,
          ev |-> [variant |-> CHOOSE v \in EventVariants : EventTag(v) = json.type,
                  timestamp |-> json.timestamp]]
    ELSE [ok |-> FALSE, ev |-> [variant |-> "none", timestamp |-> 0]]

NoData == [type |-> "", timestamp |-> 0]
BadData == [type |-> "bogus", timestamp |-> 1]

\* ------------------------------------------------------- inbound text frames
\* A text frame: whether it is JSON at all, and the members of the object
\* ("" / NoData: the member is missing).
TextOf(type, channel, data, message) ==
    [json |-> TRUE, type |-> type, channel |-> channel, data |-> data,
     message |-> message]

NotJson == [json |-> FALSE, type |-> "", channel |-> "", data |-> NoData, message |-> ""]

\* what the server writes for each WsResponse (types.rs, serde tag = "type")
PongText == TextOf("pong", "", NoData, "")
SubscribedText(c) == TextOf("subscribed", c, NoData, "")
UnsubscribedText(c) == TextOf("unsubscribed", c, NoData, "")
EventText(c, ev) == TextOf("event", c, EncodeEvent(ev), "")
ErrorText(m) == TextOf("error", "", NoData, m)

\* texts that serde_json::from_str::<WsResponse> rejects
MalformedTexts ==
    { NotJson,
      TextOf("bogus", "", NoData, ""),
      TextOf("event", "orderbook/0xA", NoData, ""),
      TextOf("event", "orderbook/0xA", BadData, ""),
      TextOf("event", "", EncodeEvent(Trade(1)), "") }

ParseError == [ok |-> FALSE, kind |-> "", channel |-> "", ev |-> [variant |-> "none", timestamp |-> 0]]

Parsed(kind, channel, ev) == [ok |-> TRUE, kind |-> kind, channel |-> channel, ev |-> ev]

NoEvent == [variant |-> "none", timestamp |-> 0]

\* serde_json::from_str::<WsResponse>(text)
ParseResponse(text) ==
    IF ~text.json THEN ParseError
    ELSE CASE text.type = "pong" -> Parsed("Pong", "", NoEvent)
           [] text.type = "subscribed" ->
                IF text.channel = "" THEN ParseError
                ELSE Parsed("Subscribed", text.channel, NoEvent)
           [] text.type = "unsubscribed" ->
                IF text.channel = "" THEN ParseError
                ELSE Parsed("Unsubscribed", text.channel, NoEvent)
           [] text.type = "event" ->
                IF text.channel = "" \/ ~DecodeEvent(text.data).ok THEN ParseError
                ELSE Parsed("Event", text.channel, DecodeEvent(text.data).ev)
           [] text.type = "error" ->
                IF text.message = "" THEN ParseError
                ELSE Parsed("Error", "", NoEvent)
           [] OTHER -> ParseError

\* --------------------------------------------------------------------- state
VARIABLES
    connection_status,  \* the status cell shared with the receive loops
    sender,             \* Option<sink>: 0 is None, n the sink of transport n
    subscriptions,      \* registry: channel -> endpoint id, 0 for no entry
    endpoints,          \* the broadcast channels ever created, by id
    receivers,          \* the broadcast receivers ever created, by id
    pc,                 \* each caller task's position
    targ,               \* each caller task's channel argument
    trx,                \* the receiver a task's subscribe call holds
    removed,            \* the endpoint HashMap::remove gave a task's
                        \* unsubscribe call, 0 for None
    mutOp,              \* the call that holds &mut self, if any
    loops,              \* each transport's receive loop
    arrived,            \* history: per endpoint, the payloads of the Event
                        \* frames taken for its channel while it was registered
    delivered,          \* history: per receiver, what its recv calls returned
    ret,                \* history: the call that returned last and what it
                        \* returned, NoReturn once another call has started
    dropped,            \* history, kept under SpecFrames only: the kind of
                        \* the frame the dispatcher dropped last, and whether
                        \* an event was pushed to a receiver since
    wire,               \* kept under SpecWire and LiveClose only: the mutex of
                        \* the sink and what was written to the transports
    auth                \* EkidenClient's Auth, kept under SpecAuth only

apiVars == <<pc, targ, trx, removed, mutOp>>
chanVars == <<subscriptions, endpoints, receivers>>
connVars == <<connection_status, sender, loops>>
histVars == <<arrived, delivered>>
vars == <<connection_status, sender, subscriptions, endpoints, receivers, pc, targ,
          trx, removed, mutOp, loops, arrived, delivered, ret, dropped, wire, auth>>
sideVars == <<wire, auth>>

Statuses == {"Disconnected", "Connecting", "Connected", "Reconnecting", "Failed"}

NothingDropped == [kind |-> "none", then |-> FALSE]

Returned(op, res) == [op |-> op, res |-> res]
NoReturn == Returned("", "")

\* the sink's mutex free, no part of a frame written, nothing on the wire
NoWire == [holders |-> {}, parts |-> <<>>, out |-> <<>>]

\* Option<T>
None == [some |-> FALSE, val |-> ""]
Some(v) == [some |-> TRUE, val |-> v]

\* Auth::new
NewAuth == [key_pair |-> None, token |-> None]

\* WebSocketClient::new
Init ==
    /\ connection_status = "Disconnected"
    /\ sender = 0
    /\ subscriptions = [c \in Channels |-> 0]
    /\ endpoints = <<>>
    /\ receivers = <<>>
    /\ pc = [t \in Tasks |-> "idle"]
    /\ targ = [t \in Tasks |-> ""]
    /\ trx = [t \in Tasks |-> 0]
    /\ removed = [t \in Tasks |-> 0]
    /\ mutOp = "none"
    /\ loops = [n \in Conns |-> "none"]
    /\ arrived = <<>>
    /\ delivered = <<>>
    /\ ret = NoReturn
    /\ dropped = NothingDropped
    /\ wire = NoWire
    /\ auth = NewAuth

\* ------------------------------------------------- tokio broadcast channel
\* broadcast::channel rounds the requested capacity up to a power of two
RECURSIVE Pow2From(_, _)
Pow2From(p, n) == IF p >= n THEN p ELSE Pow2From(2 * p, n)

BufferLen == Pow2From(1, Capacity)

\* broadcast::channel(1000) in subscribe: an empty ring, slot i stamped i - len
NewChannel(c) ==
    [channel |-> c, pos |-> 0, closed |-> FALSE,
     buffer |-> [i \in 0 .. BufferLen - 1 |-> [pos |-> i - BufferLen, val |-> NoEvent]]]

\* a receiver is alive from channel() until it is dropped
Alive(r) == receivers[r].st \in {"held", "user"}

\* Sender's rx_cnt: the receivers alive on endpoint e
RxCount(rxs, e) ==
    Cardinality({r \in 1 .. Len(rxs) : rxs[r].ep = e /\ rxs[r].st \in {"held", "user"}})

\* a send that stores the value without advancing the tail
BroadcastSend_TailKept(ch, rx_cnt, ev) ==
    IF rx_cnt = 0 THEN ch
    ELSE [ch EXCEPT !.buffer[ch.pos % BufferLen] = [pos |-> ch.pos - BufferLen, val |-> ev]]

\* Sender::send(data): Err and nothing stored when no receiver is alive,
\* otherwise the value overwrites slot pos mod len; never waits
BroadcastSend(ch, rx_cnt, ev) ==
    IF rx_cnt = 0 THEN ch
    ELSE [ch EXCEPT !.buffer[ch.pos % BufferLen] = [pos |-> ch.pos, val |-> ev],
                    !.pos = ch.pos + 1]

\* a receive that returns the newest slot instead of the one at the cursor
RecvOutcome_Newest(ch, next) ==
    LET slot == ch.buffer[(ch.pos - 1) % BufferLen]
    IN  IF ch.pos = next
        THEN [kind |-> IF ch.closed THEN "closed" ELSE "empty",
              ev |-> NoEvent, next |-> next, missed |-> 0]
        ELSE [kind |-> "value", ev |-> slot.val, next |-> next + 1, missed |-> 0]

\* Receiver::recv / try_recv at cursor next: a value, Empty (recv waits),
\* Closed, or Lagged(missed) with the cursor moved to the oldest value kept
RecvOutcome(ch, next) ==
    LET slot == ch.buffer[next % BufferLen]
        oldest == ch.pos - BufferLen
    IN  IF slot.pos = next
        THEN [kind |-> "value", ev |-> slot.val, next |-> next + 1, missed |-> 0]
        ELSE IF slot.pos + BufferLen = next
        THEN [kind |-> IF ch.closed THEN "closed" ELSE "empty",
              ev |-> NoEvent, next |-> next, missed |-> 0]
        ELSE IF oldest = next
        THEN [kind |-> "value", ev |-> slot.val, next |-> next + 1, missed |-> 0]
        ELSE [kind |-> "lagged", ev |-> NoEvent, next |-> oldest, missed |-> oldest - next]

\* ------------------------------------------------------------- the registry
\* a lookup that falls back on another channel's entry
Lookup_Fallback(subs, c) ==
    IF c \in DOMAIN subs /\ subs[c] # 0 THEN subs[c]
    ELSE IF \E d \in DOMAIN subs : subs[d] # 0
    THEN CHOOSE e \in {subs[d] : d \in DOMAIN subs} : e # 0
    ELSE 0

\* HashMap::get
Lookup(subs, c) == IF c \in DOMAIN subs THEN subs[c] ELSE 0

\* an insert that stores nothing
Insert_Dropped(subs, c, e) == subs

\* an insert that keeps the entry the channel already has
Insert_KeepOld(subs, c, e) == IF subs[c] # 0 THEN subs ELSE [subs EXCEPT ![c] = e]

\* HashMap::insert(channel, tx) in subscribe
Insert(subs, c, e) == [subs EXCEPT ![c] = e]

\* a removal that leaves the entry in place
Remove_Kept(subs, c) == subs

\* HashMap::remove(channel) in unsubscribe
Remove(subs, c) == [subs EXCEPT ![c] = 0]

\* a clear that leaves the entries in place
Clear_Kept(subs) == subs

\* HashMap::clear() in disconnect
Clear(subs) == [c \in DOMAIN subs |-> 0]

\* the endpoints whose Sender a registry change dropped
CloseDropped(eps, subs, subs2) ==
    [e \in 1 .. Len(eps) |->
        IF (\E c \in DOMAIN subs : subs[c] = e) /\ ~(\E c \in DOMAIN subs2 : subs2[c] = e)
        THEN [eps[e] EXCEPT !.closed = TRUE]
        ELSE eps[e]]

\* active_subscriptions
active_subscriptions == {c \in DOMAIN subscriptions : subscriptions[c] # 0}

\* is_subscribed
is_subscribed(c) == Lookup(subscriptions, c) # 0

\* is_connected
is_connected == connection_status = "Connected"

\* ---------------------------------------------------------------- send_request
\* a send_request that does not look at the handle
SendRequest_Unchecked(sndr) == {"ok", "send_error"}

\* send_request: the not-connected error when the handle is None, otherwise
\* the frame is written under the sink's mutex, and the write can fail
SendRequest(sndr) == IF sndr = 0 THEN {"not_connected"} ELSE {"ok", "send_error"}

AllIdle == \A t \in DOMAIN pc : pc[t] = "idle"

\* ----------------------------------------------------------- subscribe
\* subscribe, up to the registry insert: a new broadcast channel, its Sender
\* stored under the channel (the Sender it replaces is dropped), its
\* Receiver kept by the call until send_request returns
SubscribeInsert(t, c) ==
    /\ pc[t] = "idle" /\ mutOp = "none"
    /\ Len(endpoints) < MaxEndpoints
    /\ LET e == Len(endpoints) + 1
           subs2 == Insert(subscriptions, c, e)
       IN  /\ subscriptions' = subs2
           /\ endpoints' = Append(CloseDropped(endpoints, subscriptions, subs2), NewChannel(c))
           /\ receivers' = Append(receivers, [ep |-> e, next |-> 0, st |-> "held"])
           /\ trx' = [trx EXCEPT ![t] = Len(receivers) + 1]
    /\ pc' = [pc EXCEPT ![t] = "subscribe_send"]
    /\ targ' = [targ EXCEPT ![t] = c]
    /\ arrived' = Append(arrived, <<>>)
    /\ delivered' = Append(delivered, <<>>)
    /\ ret' = NoReturn
    /\ UNCHANGED <<removed, mutOp, connVars, dropped>>

\* a subscribe that hands its Receiver to the caller whatever send_request
\* returned
ReceiverAfterSubscribe_Handed(res) == "user"

\* what subscribe does with its Receiver once send_request returned res:
\* Ok(rx) hands it to the caller, the ? operator drops it
ReceiverAfterSubscribe(res) == IF res = "ok" THEN "user" ELSE "dropped"

\* subscribe, from send_request to its return
SubscribeSend(t) ==
    /\ pc[t] = "subscribe_send"
    /\ \E res \in SendRequest(sender) :
        /\ receivers' = [receivers EXCEPT ![trx[t]].st = ReceiverAfterSubscribe(res)]
        /\ ret' = Returned("subscribe", res)
    /\ pc' = [pc EXCEPT ![t] = "idle"]
    /\ targ' = [targ EXCEPT ![t] = ""]
    /\ trx' = [trx EXCEPT ![t] = 0]
    /\ UNCHANGED <<removed, mutOp, subscriptions, endpoints, connVars, histVars, dropped>>

\* ------------------------------------------------------------- unsubscribe
\* unsubscribe, up to the registry removal
UnsubscribeRemove(t, c) ==
    /\ pc[t] = "idle" /\ mutOp = "none"
    /\ LET subs2 == Remove(subscriptions, c)
       IN  /\ subscriptions' = subs2
           /\ endpoints' = CloseDropped(endpoints, subscriptions, subs2)
    /\ pc' = [pc EXCEPT ![t] = "unsubscribe_send"]
    /\ targ' = [targ EXCEPT ![t] = c]
    /\ removed' = [removed EXCEPT ![t] = Lookup(subscriptions, c)]
    /\ ret' = NoReturn
    /\ UNCHANGED <<trx, mutOp, receivers, connVars, histVars, dropped>>

\* the result of unsubscribe given send_request's: the ? operator returns
\* the error, otherwise Ok(())
UnsubscribeResult(res) == res

\* unsubscribe, from send_request to its return
UnsubscribeSend(t) ==
    /\ pc[t] = "unsubscribe_send"
    /\ \E res \in SendRequest(sender) : ret' = Returned("unsubscribe", UnsubscribeResult(res))
    /\ pc' = [pc EXCEPT ![t] = "idle"]
    /\ targ' = [targ EXCEPT ![t] = ""]
    /\ removed' = [removed EXCEPT ![t] = 0]
    /\ UNCHANGED <<trx, mutOp, chanVars, connVars, histVars, dropped>>

\* ping
Ping(t) ==
    /\ pc[t] = "idle" /\ mutOp = "none"
    /\ \E res \in SendRequest(sender) : ret' = Returned("ping", res)
    /\ UNCHANGED <<apiVars, chanVars, connVars, histVars, dropped>>

\* ------------------------------------------------------------------ connect
\* a connect that announces Connected before the handshake
StatusBeforeHandshake_Connected == "Connected"

\* the status connect stores before the handshake
StatusBeforeHandshake == "Connecting"

\* a connect that stores nothing after the handshake
StatusAfterHandshake_Unstored == StatusBeforeHandshake

\* the status connect stores once the sink is stored
StatusAfterHandshake == "Connected"

\* connect, up to the handshake
ConnectBegin ==
    /\ AllIdle /\ mutOp = "none"
    /\ connection_status' = StatusBeforeHandshake
    /\ mutOp' = "connect"
    /\ ret' = NoReturn
    /\ UNCHANGED <<pc, targ, trx, removed, chanVars, sender, loops, histVars, dropped>>

\* connect_async fails: the ? operator returns the error
ConnectFail ==
    /\ mutOp = "connect"
    /\ mutOp' = "none"
    /\ ret' = Returned("connect", "transport_error")
    /\ UNCHANGED <<pc, targ, trx, removed, chanVars, connVars, histVars, dropped>>

\* a connect that ends the receive loops of the earlier transports
LoopsAfterConnect_OldStopped(ls, n) ==
    [m \in DOMAIN ls |-> IF m = n THEN "running" ELSE IF ls[m] = "none" THEN "none" ELSE "done"]

\* tokio::spawn(handle_messages(stream, ..)) in connect: the loop of the new
\* transport starts, nothing is done to the others
LoopsAfterConnect(ls, n) == [ls EXCEPT ![n] = "running"]

\* connect_async succeeds: the sink replaces the stored handle, the status
\* is stored, the receive loop of the new transport is spawned
ConnectOk ==
    /\ mutOp = "connect"
    /\ \E n \in DOMAIN loops :
        /\ loops[n] = "none"
        /\ \A m \in DOMAIN loops : m < n => loops[m] # "none"
        /\ sender' = n
        /\ loops' = LoopsAfterConnect(loops, n)
    /\ connection_status' = StatusAfterHandshake
    /\ mutOp' = "none"
    /\ ret' = Returned("connect", "ok")
    /\ UNCHANGED <<pc, targ, trx, removed, chanVars, histVars, dropped>>

\* --------------------------------------------------------------- disconnect
\* a disconnect that leaves the status Connected
StatusAfterDisconnect_Connected == "Connected"

\* the status disconnect stores
StatusAfterDisconnect == "Disconnected"

\* disconnect, up to the status store: a close frame on the sink if there
\* is one (its result ignored), the handle dropped, the status stored
DisconnectClose ==
    /\ AllIdle /\ mutOp = "none"
    /\ sender' = 0
    /\ connection_status' = StatusAfterDisconnect
    /\ mutOp' = "disconnect"
    /\ ret' = NoReturn
    /\ UNCHANGED <<pc, targ, trx, removed, chanVars, loops, histVars, dropped>>

\* disconnect, from the registry clear to its return
DisconnectClear ==
    /\ mutOp = "disconnect"
    /\ LET subs2 == Clear(subscriptions)
       IN  /\ subscriptions' = subs2
           /\ endpoints' = CloseDropped(endpoints, subscriptions, subs2)
    /\ mutOp' = "none"
    /\ ret' = Returned("disconnect", "ok")
    /\ UNCHANGED <<pc, targ, trx, removed, receivers, connVars, histVars, dropped>>

\* ------------------------------------------------------------ the dispatcher
\* a dispatcher that takes the server's Unsubscribed for the end of the
\* channel and closes its endpoint
ProcessMessage_AckCloses(text, subs, eps, rxs) ==
    LET response == ParseResponse(text)
        e == Lookup(subs, response.channel)
    IN  IF ~response.ok THEN eps
        ELSE IF response.kind = "Event" /\ e # 0
        THEN [eps EXCEPT ![e] = BroadcastSend(eps[e], RxCount(rxs, e), response.ev)]
        ELSE IF response.kind = "Unsubscribed" /\ e # 0
        THEN [eps EXCEPT ![e].closed = TRUE]
        ELSE eps

\* process_message: the registry's endpoints after one text frame.  A text
\* that does not parse returns Err before anything is touched; only Event
\* reaches the registry, under its read lock: get(channel), then send(data),
\* whose Err (no receiver) is logged
ProcessMessage(text, subs, eps, rxs) ==
    LET response == ParseResponse(text)
        e == Lookup(subs, response.channel)
    IN  IF ~response.ok THEN eps
        ELSE IF response.kind = "Event" /\ e # 0
        THEN [eps EXCEPT ![e] = BroadcastSend(eps[e], RxCount(rxs, e), response.ev)]
        ELSE eps

\* what process_message returns to handle_messages
ProcessResult(text) == IF ParseResponse(text).ok THEN "ok" ELSE "serialization_error"

\* ---------------------------------------------------------- the receive loop
\* what stream.next() yields
TextFrame(text) == [kind |-> "text", text |-> text]
CloseFrame == [kind |-> "close", text |-> NotJson]
OtherFrame == [kind |-> "other", text |-> NotJson]
TransportError == [kind |-> "error", text |-> NotJson]
EndOfStream == [kind |-> "end", text |-> NotJson]

\* a loop that records the end of the stream as an orderly close
StatusAfterFrame_EndAsClose(frame, status) ==
    CASE frame.kind \in {"close", "end"} -> "Disconnected"
      [] frame.kind = "error" -> "Failed"
      [] OTHER -> status

\* a loop that announces a reconnection after a transport error
StatusAfterFrame_Reconnecting(frame, status) ==
    CASE frame.kind = "close" -> "Disconnected"
      [] frame.kind = "error" -> "Reconnecting"
      [] OTHER -> status

\* a loop that records a transport error as an orderly close
StatusAfterFrame_ErrorAsClose(frame, status) ==
    CASE frame.kind = "close" -> "Disconnected"
      [] frame.kind = "error" -> "Disconnected"
      [] OTHER -> status

\* handle_messages: the status cell after one item of the stream
StatusAfterFrame(frame, status) ==
    CASE frame.kind = "close" -> "Disconnected"
      [] frame.kind = "error" -> "Failed"
      [] OTHER -> status

\* a loop that no item of the stream ends
LoopAfterFrame_NeverEnds(frame) == "running"

\* a loop that goes on reading after a Close frame
LoopAfterFrame_CloseGoesOn(frame) ==
    IF frame.kind \in {"error", "end"} THEN "done" ELSE "running"

\* a loop that lets the error of process_message end it
LoopAfterFrame_StopOnBadText(frame) ==
    IF frame.kind \in {"close", "error", "end"} THEN "done"
    ELSE IF frame.kind = "text" /\ ~ParseResponse(frame.text).ok THEN "done"
    ELSE "running"

\* handle_messages: whether the loop goes on after one item of the stream
LoopAfterFrame(frame) ==
    IF frame.kind \in {"close", "error", "end"} THEN "done" ELSE "running"

\* a loop that waits for room in the ring of the endpoint before it pushes
HandleMessage_Backpressure(n, frame) ==
    /\ loops[n] = "running"
    /\ \A r \in 1 .. Len(receivers) :
          (frame.kind = "text" /\ receivers[r].st \in {"held", "user"})
              => endpoints[receivers[r].ep].pos - receivers[r].next < BufferLen
    /\ endpoints' = IF frame.kind = "text"
                    THEN ProcessMessage(frame.text, subscriptions, endpoints, receivers)
                    ELSE endpoints
    /\ connection_status' = StatusAfterFrame(frame, connection_status)
    /\ loops' = [loops EXCEPT ![n] = LoopAfterFrame(frame)]
    /\ UNCHANGED <<apiVars, subscriptions, receivers, sender, delivered, ret>>

\* handle_messages: one iteration of the loop of transport n
HandleMessage(n, frame) ==
    /\ loops[n] = "running"
    /\ endpoints' = IF frame.kind = "text"
                    THEN ProcessMessage(frame.text, subscriptions, endpoints, receivers)
                    ELSE endpoints
    /\ connection_status' = StatusAfterFrame(frame, connection_status)
    /\ loops' = [loops EXCEPT ![n] = LoopAfterFrame(frame)]
    /\ UNCHANGED <<apiVars, subscriptions, receivers, sender, delivered, ret>>

RECURSIVE SumLen(_)
SumLen(seqs) == IF seqs = <<>> THEN 0 ELSE Len(Head(seqs)) + SumLen(Tail(seqs))

\* the payload of the next event the server sends
NextEvent == Trade(SumLen(arrived) + 1)

\* the server sends Event{channel, data}, at most max of them to registered
\* channels
LoopEventUpTo(n, c, max) ==
    /\ c \in active_subscriptions => SumLen(arrived) < max
    /\ HandleMessage(n, TextFrame(EventText(c, NextEvent)))
    /\ arrived' = IF c \in active_subscriptions
                  THEN [arrived EXCEPT ![subscriptions[c]] = Append(@, NextEvent)]
                  ELSE arrived

LoopEvent(n, c) == LoopEventUpTo(n, c, MaxEvents)

\* the server sends Pong, Subscribed, Unsubscribed or Error
InfoTexts ==
    {PongText, ErrorText("no such market"), SubscribedText("orderbook/0xA"),
     UnsubscribedText("orderbook/0xA")}

LoopInfo(n, text) ==
    /\ HandleMessage(n, TextFrame(text))
    /\ UNCHANGED arrived

\* a text frame that is no WsResponse
LoopMalformed(n, text) ==
    /\ HandleMessage(n, TextFrame(text))
    /\ UNCHANGED arrived

\* Close, a frame of another kind, a transport error, the end of the stream
LoopControl(n, frame) ==
    /\ HandleMessage(n, frame)
    /\ UNCHANGED arrived

\* ------------------------------------------------------------- receivers
\* in the history of a receiver: RecvError::Lagged, once per event missed,
\* and RecvError::Closed (EventStream::recv's ConnectionClosed)
LaggedMark == [variant |-> "Lagged", timestamp |-> 0]
ClosedMark == [variant |-> "ConnectionClosed", timestamp |-> 0]

RECURSIVE Repeat(_, _)
Repeat(x, n) == IF n <= 0 THEN <<>> ELSE <<x>> \o Repeat(x, n - 1)

LastOf(seq) == IF seq = <<>> THEN NoEvent ELSE seq[Len(seq)]

\* a receive that moves the cursor of every receiver of the endpoint, as a
\* queue shared by the consumers would
Recv_Shared(r) ==
    /\ receivers[r].st = "user"
    /\ LET out == RecvOutcome(endpoints[receivers[r].ep], receivers[r].next)
       IN  /\ out.kind # "empty"
           /\ out.kind = "closed" => LastOf(delivered[r]) # ClosedMark
           /\ receivers' = [q \in 1 .. Len(receivers) |->
                 IF receivers[q].ep = receivers[r].ep
                 THEN [receivers[q] EXCEPT !.next = out.next]
                 ELSE receivers[q]]
           /\ delivered' = [delivered EXCEPT ![r] =
                 CASE out.kind = "value" -> Append(@, out.ev)
                   [] out.kind = "lagged" -> @ \o Repeat(LaggedMark, out.missed)
                   [] OTHER -> Append(@, ClosedMark)]
    /\ UNCHANGED <<apiVars, subscriptions, endpoints, connVars, arrived, ret, dropped>>

\* a receive on a receiver the caller holds; recv waits while the channel is
\* empty and open
Recv(r) ==
    /\ receivers[r].st = "user"
    /\ LET out == RecvOutcome(endpoints[receivers[r].ep], receivers[r].next)
       IN  /\ out.kind # "empty"
           /\ out.kind = "closed" => LastOf(delivered[r]) # ClosedMark
           /\ receivers' = [receivers EXCEPT ![r].next = out.next]
           /\ delivered' = [delivered EXCEPT ![r] =
                 CASE out.kind = "value" -> Append(@, out.ev)
                   [] out.kind = "lagged" -> @ \o Repeat(LaggedMark, out.missed)
                   [] OTHER -> Append(@, ClosedMark)]
    /\ UNCHANGED <<apiVars, subscriptions, endpoints, connVars, arrived, ret, dropped>>

\* in the history of a receiver: an event stored before the receiver existed
BeforeMark == [variant |-> "Before", timestamp |-> 0]

\* Receiver::resubscribe on the receiver subscribe returned: a second
\* receiver on the same endpoint, its cursor at the tail
Resubscribe(r) ==
    /\ receivers[r].st = "user"
    /\ Len(receivers) < MaxEndpoints
    /\ receivers' = Append(receivers, [ep |-> receivers[r].ep,
                                       next |-> endpoints[receivers[r].ep].pos,
                                       st |-> "user"])
    /\ delivered' = Append(delivered, Repeat(BeforeMark, Len(arrived[receivers[r].ep])))
    /\ UNCHANGED <<apiVars, subscriptions, endpoints, connVars, arrived, ret, dropped>>

\* ----------------------------------------------------------- specification
\* the steps of the callers and of the receivers
CallerNext ==
    \/ \E t \in Tasks, c \in Channels : SubscribeInsert(t, c) /\ UNCHANGED sideVars
    \/ \E t \in Tasks : SubscribeSend(t) /\ UNCHANGED sideVars
    \/ \E t \in Tasks, c \in Channels : UnsubscribeRemove(t, c) /\ UNCHANGED sideVars
    \/ \E t \in Tasks : UnsubscribeSend(t) /\ UNCHANGED sideVars
    \/ \E t \in Tasks : Ping(t) /\ UNCHANGED sideVars
    \/ ConnectBegin /\ UNCHANGED sideVars
    \/ ConnectFail /\ UNCHANGED sideVars
    \/ ConnectOk /\ UNCHANGED sideVars
    \/ DisconnectClose /\ UNCHANGED sideVars
    \/ DisconnectClear /\ UNCHANGED sideVars
    \/ \E r \in 1 .. Len(receivers) : Recv(r) /\ UNCHANGED sideVars

EventChannels == Channels \cup {UnknownChannel}
ControlFrames == {CloseFrame, OtherFrame, TransportError, EndOfStream}

Next ==
    \/ CallerNext
    \/ \E n \in Conns, c \in EventChannels : LoopEvent(n, c) /\ UNCHANGED dropped /\ UNCHANGED sideVars
    \/ \E n \in Conns, text \in InfoTexts : LoopInfo(n, text) /\ UNCHANGED dropped /\ UNCHANGED sideVars
    \/ \E n \in Conns, text \in MalformedTexts : LoopMalformed(n, text) /\ UNCHANGED dropped /\ UNCHANGED sideVars
    \/ \E n \in Conns, frame \in ControlFrames : LoopControl(n, frame) /\ UNCHANGED dropped /\ UNCHANGED sideVars

Spec == Init /\ [][Next]_vars

\* The same steps with the history of dropped frames recorded, explored with
\* one broadcast channel fewer than MaxEndpoints.
Dropped(kind) == [kind |-> kind, then |-> FALSE]

DroppedAfterEvent(c) ==
    IF c \notin active_subscriptions
    THEN IF \E e \in 1 .. Len(endpoints) : endpoints[e].channel = c
         THEN Dropped("removed_channel")
         ELSE Dropped("unknown_channel")
    ELSE IF dropped.kind = "malformed" /\ RxCount(receivers, subscriptions[c]) > 0
    THEN [dropped EXCEPT !.then = TRUE]
    ELSE dropped

NextFrames ==
    \/ CallerNext /\ Len(endpoints') < MaxEndpoints
    \/ \E n \in Conns, c \in EventChannels : LoopEvent(n, c) /\ dropped' = DroppedAfterEvent(c) /\ UNCHANGED sideVars
    \/ \E n \in Conns, text \in InfoTexts : LoopInfo(n, text) /\ dropped' = Dropped("info") /\ UNCHANGED sideVars
    \/ \E n \in Conns, text \in MalformedTexts :
            LoopMalformed(n, text) /\ dropped' = Dropped("malformed") /\ UNCHANGED sideVars
    \/ \E n \in Conns, frame \in ControlFrames : LoopControl(n, frame) /\ UNCHANGED dropped /\ UNCHANGED sideVars

SpecFrames == Init /\ [][NextFrames]_vars

\* ------------------------------------------------------------ channel names
\* strings as sequences of characters; the identifiers handed to the channel
\* constructors, up to MaxIdLen characters of IdChars
IdChars == {"a", "/"}

RECURSIVE StringsUpTo(_)
StringsUpTo(n) ==
    IF n = 0 THEN {<<>>}
    ELSE LET shorter == StringsUpTo(n - 1)
         IN  shorter \cup {Append(w, ch) : w \in shorter, ch \in IdChars}

Ids == StringsUpTo(MaxIdLen)

Slash == <<"/">>
OrderbookKind == <<"o", "r", "d", "e", "r", "b", "o", "o", "k">>
TradesKind == <<"t", "r", "a", "d", "e", "s">>
UserKind == <<"u", "s", "e", "r">>
CandlesKind == <<"c", "a", "n", "d", "l", "e", "s">>

\* channels::orderbook
orderbook(market_addr) == OrderbookKind \o Slash \o market_addr

\* a trades constructor that formats with the orderbook template
trades_AsOrderbook(market_addr) == OrderbookKind \o Slash \o market_addr

\* channels::trades
trades(market_addr) == TradesKind \o Slash \o market_addr

\* channels::user
user(user_addr) == UserKind \o Slash \o user_addr

\* channels::candles
candles(market_addr, interval) == CandlesKind \o Slash \o market_addr \o Slash \o interval

\* the channel subscribe_orderbook formats
OrderbookChannel(market_addr) == OrderbookKind \o Slash \o market_addr

\* the channel subscribe_trades formats
TradesChannel(market_addr) == TradesKind \o Slash \o market_addr

\* the channel subscribe_user formats
UserChannel(user_addr) == UserKind \o Slash \o user_addr

\* subscribe_orderbook, subscribe_trades, subscribe_user, up to the insert
subscribe_orderbook(t, market_addr) == SubscribeInsert(t, OrderbookChannel(market_addr))
subscribe_trades(t, market_addr) == SubscribeInsert(t, TradesChannel(market_addr))
subscribe_user(t, user_addr) == SubscribeInsert(t, UserChannel(user_addr))

\* the keys the registry can get through these calls
NameKeys ==
    {OrderbookChannel(a) : a \in Ids} \cup {TradesChannel(a) : a \in Ids}
        \cup {UserChannel(a) : a \in Ids}

\* the channels a caller builds with the constructors
BuiltKeys ==
    {orderbook(a) : a \in Ids} \cup {trades(a) : a \in Ids} \cup {user(a) : a \in Ids}

\* a client whose registry is keyed by such names
InitNames ==
    /\ connection_status = "Disconnected"
    /\ sender = 0
    /\ subscriptions = [c \in NameKeys \cup BuiltKeys |-> 0]
    /\ endpoints = <<>>
    /\ receivers = <<>>
    /\ pc = [t \in Tasks |-> "idle"]
    /\ targ = [t \in Tasks |-> ""]
    /\ trx = [t \in Tasks |-> 0]
    /\ removed = [t \in Tasks |-> 0]
    /\ mutOp = "none"
    /\ loops = [n \in Conns |-> "none"]
    /\ arrived = <<>>
    /\ delivered = <<>>
    /\ ret = NoReturn
    /\ dropped = NothingDropped
    /\ wire = NoWire
    /\ auth = NewAuth

\* callers that connect, subscribe through the three helpers, and
\* unsubscribe from what the constructors build
NextNames ==
    \/ ConnectBegin /\ UNCHANGED sideVars
    \/ ConnectOk /\ UNCHANGED sideVars
    \/ \E t \in Tasks, a \in Ids : subscribe_orderbook(t, a) /\ UNCHANGED sideVars
    \/ \E t \in Tasks, a \in Ids : subscribe_trades(t, a) /\ UNCHANGED sideVars
    \/ \E t \in Tasks, a \in Ids : subscribe_user(t, a) /\ UNCHANGED sideVars
    \/ \E t \in Tasks : SubscribeSend(t) /\ UNCHANGED sideVars
    \/ \E t \in Tasks, c \in BuiltKeys : UnsubscribeRemove(t, c) /\ UNCHANGED sideVars
    \/ \E t \in Tasks : UnsubscribeSend(t) /\ UNCHANGED sideVars

SpecNames == InitNames /\ [][NextNames]_vars

\* the callers also take second receivers on the endpoints they hold
NextFanout ==
    \/ CallerNext /\ Len(endpoints') < MaxEndpoints
    \/ \E r \in 1 .. Len(receivers) : Resubscribe(r) /\ UNCHANGED sideVars
    \/ \E n \in Conns, c \in EventChannels : LoopEvent(n, c) /\ UNCHANGED dropped /\ UNCHANGED sideVars
    \/ \E n \in Conns, text \in InfoTexts : LoopInfo(n, text) /\ UNCHANGED dropped /\ UNCHANGED sideVars
    \/ \E n \in Conns, text \in MalformedTexts : LoopMalformed(n, text) /\ UNCHANGED dropped /\ UNCHANGED sideVars
    \/ \E n \in Conns, frame \in ControlFrames : LoopControl(n, frame) /\ UNCHANGED dropped /\ UNCHANGED sideVars

SpecFanout == Init /\ [][NextFanout]_vars

\* callers that connect, subscribe and receive, some of them slowly, while
\* the server sends events
NextLag ==
    \/ ConnectBegin /\ UNCHANGED sideVars
    \/ ConnectOk /\ UNCHANGED sideVars
    \/ \E t \in Tasks, c \in Channels : SubscribeInsert(t, c) /\ UNCHANGED sideVars
    \/ \E t \in Tasks : SubscribeSend(t) /\ UNCHANGED sideVars
    \/ \E r \in 1 .. Len(receivers) : Recv(r) /\ UNCHANGED sideVars
    \/ \E n \in Conns, c \in EventChannels :
            LoopEventUpTo(n, c, MaxLagEvents) /\ UNCHANGED dropped /\ UNCHANGED sideVars

SpecLag == Init /\ [][NextLag]_vars

\* ------------------------------------------------------------ the send half
\* WsRequest and its JSON (types.rs, serde tag = "type"; "" for no member)
PingRequest == [variant |-> "Ping", channel |-> ""]
SubscribeRequest(c) == [variant |-> "Subscribe", channel |-> c]
UnsubscribeRequest(c) == [variant |-> "Unsubscribe", channel |-> c]

RequestTag(variant) ==
    CASE variant = "Ping" -> "ping"
      [] variant = "Subscribe" -> "subscribe"
      [] variant = "Unsubscribe" -> "unsubscribe"

\* serde_json::to_string(&request)
EncodeRequest(request) == [type |-> RequestTag(request.variant), channel |-> request.channel]

\* the request a call hands to send_request
RequestOf(t) ==
    CASE pc[t] = "subscribe_send" -> SubscribeRequest(targ[t])
      [] pc[t] = "unsubscribe_send" -> UnsubscribeRequest(targ[t])
      [] pc[t] = "ping_send" -> PingRequest

SendPcs == {"subscribe_send", "unsubscribe_send", "ping_send"}

\* the transport takes a text frame in parts
FrameParts == <<"head", "tail">>

\* what reaches transport n: a part of a text frame, the close frame of
\* disconnect
Chunk(n, json, part) == [conn |-> n, json |-> json, part |-> part]
CloseChunk(n) == Chunk(n, [type |-> "", channel |-> ""], "close")

\* ping with its send_request as a step of its own
PingCall(t) ==
    /\ pc[t] = "idle" /\ mutOp = "none"
    /\ pc' = [pc EXCEPT ![t] = "ping_send"]
    /\ ret' = NoReturn
    /\ UNCHANGED <<targ, trx, removed, mutOp, chanVars, connVars, histVars, dropped>>

PingSend(t) ==
    /\ pc[t] = "ping_send"
    /\ \E res \in SendRequest(sender) : ret' = Returned("ping", res)
    /\ pc' = [pc EXCEPT ![t] = "idle"]
    /\ UNCHANGED <<targ, trx, removed, mutOp, chanVars, connVars, histVars, dropped>>

\* the return of the call that is in send_request
Finish(t) == SubscribeSend(t) \/ UnsubscribeSend(t) \/ PingSend(t)

\* send_request finds no handle
SendNotConnected(t) ==
    /\ sender = 0
    /\ Finish(t)
    /\ UNCHANGED sideVars

\* a sink that any number of tasks can take
MutexFree_Always(w) == TRUE

\* tokio::sync::Mutex: lock().await returns once no guard is alive
MutexFree(w) == w.holders = {}

FramesBegun == Cardinality({i \in DOMAIN wire.out : wire.out[i].part = "head"})

\* send_request: sender.lock().await
SinkLock(t) ==
    /\ pc[t] \in SendPcs
    /\ sender # 0
    /\ t \notin wire.holders
    /\ MutexFree(wire)
    /\ FramesBegun < MaxRequests
    /\ wire' = [wire EXCEPT !.holders = @ \cup {t}]
    /\ UNCHANGED <<apiVars, chanVars, connVars, histVars, ret, dropped, auth>>

\* sink.send(Message::Text(message)): the next part of the frame
SinkWrite(t) ==
    /\ t \in wire.holders
    /\ wire.parts[t] < Len(FrameParts)
    /\ wire' = [wire EXCEPT
            !.out = Append(@, Chunk(sender, EncodeRequest(RequestOf(t)),
                                    FrameParts[wire.parts[t] + 1])),
            !.parts[t] = @ + 1]
    /\ UNCHANGED <<apiVars, chanVars, connVars, histVars, ret, dropped, auth>>

\* the guard is dropped when send_request returns
Released(w, t) == [w EXCEPT !.holders = @ \ {t}, !.parts[t] = 0]

\* sink.send fails: the ? operator returns the error
SinkFail(t) ==
    /\ t \in wire.holders
    /\ wire.parts[t] < Len(FrameParts)
    /\ Finish(t)
    /\ ret'.res = "send_error"
    /\ wire' = Released(wire, t)
    /\ UNCHANGED auth

\* sink.send returns Ok: send_request returns Ok
SinkDone(t) ==
    /\ t \in wire.holders
    /\ wire.parts[t] = Len(FrameParts)
    /\ Finish(t)
    /\ ret'.res = "ok"
    /\ wire' = Released(wire, t)
    /\ UNCHANGED auth

\* disconnect, up to the status store, with the close frame recorded
DisconnectCloseSent ==
    /\ DisconnectClose
    /\ wire' = IF sender # 0 THEN [wire EXCEPT !.out = Append(@, CloseChunk(sender))] ELSE wire
    /\ UNCHANGED auth

\* one caller more than in Spec, so that two calls overlap
WireTasks == 1 .. NumTasks + 1

InitWire ==
    /\ connection_status = "Disconnected"
    /\ sender = 0
    /\ subscriptions = [c \in Channels |-> 0]
    /\ endpoints = <<>>
    /\ receivers = <<>>
    /\ pc = [t \in WireTasks |-> "idle"]
    /\ targ = [t \in WireTasks |-> ""]
    /\ trx = [t \in WireTasks |-> 0]
    /\ removed = [t \in WireTasks |-> 0]
    /\ mutOp = "none"
    /\ loops = [n \in Conns |-> "none"]
    /\ arrived = <<>>
    /\ delivered = <<>>
    /\ ret = NoReturn
    /\ dropped = NothingDropped
    /\ wire = [NoWire EXCEPT !.parts = [t \in WireTasks |-> 0]]
    /\ auth = NewAuth

\* concurrent callers with the writes to the sink as steps of their own
NextWire ==
    \/ ConnectBegin /\ UNCHANGED sideVars
    \/ ConnectOk /\ UNCHANGED sideVars
    \/ \E t \in WireTasks, c \in WireChannels :
            SubscribeInsert(t, c) /\ Len(endpoints') < MaxEndpoints /\ UNCHANGED sideVars
    \/ \E t \in WireTasks, c \in WireChannels : UnsubscribeRemove(t, c) /\ UNCHANGED sideVars
    \/ \E t \in WireTasks : PingCall(t) /\ UNCHANGED sideVars
    \/ \E t \in WireTasks : SendNotConnected(t)
    \/ \E t \in WireTasks : SinkLock(t)
    \/ \E t \in WireTasks : SinkWrite(t)
    \/ \E t \in WireTasks : SinkFail(t)
    \/ \E t \in WireTasks : SinkDone(t)
    \/ \E n \in Conns, c \in WireChannels :
            LoopEvent(n, c) /\ UNCHANGED dropped /\ UNCHANGED sideVars

SpecWire == InitWire /\ [][NextWire]_vars

\* ------------------------------------------------------------ EkidenClient auth
\* private keys handed to set_private_key (the last is no hex key), tokens
\* handed to set_token, tokens the server issues
PrivateKeys == {"0x01", "0x02", "zz"}
Tokens == {"test_token", ""}
ServerTokens == {"jwt"}

\* KeyPair::from_private_key
from_private_key(private_key) ==
    IF private_key \in {"0x01", "0x02"}
    THEN [ok |-> TRUE, key_pair |-> [private_key |-> private_key]]
    ELSE [ok |-> FALSE, key_pair |-> [private_key |-> ""]]

\* Auth::with_private_key on a clone of the Auth
with_private_key(a, private_key) ==
    LET parsed == from_private_key(private_key)
    IN  IF parsed.ok THEN [ok |-> TRUE, auth |-> [a EXCEPT !.key_pair = Some(parsed.key_pair)]]
        ELSE [ok |-> FALSE, auth |-> a]

\* an is_authenticated that takes a key pair for a credential
IsAuthenticated_WithKey(a) == a.token.some \/ a.key_pair.some

\* Auth::is_authenticated
IsAuthenticated(a) == a.token.some

\* EkidenClient::is_authenticated, token, public_key
is_authenticated == IsAuthenticated(auth)
token == auth.token
has_key_pair == auth.key_pair.some

\* EkidenClient::set_private_key: the Auth is replaced only when the key parses
set_private_key(private_key) ==
    LET res == with_private_key(auth, private_key)
    IN  /\ auth' = IF res.ok THEN res.auth ELSE auth
        /\ ret' = Returned("set_private_key", IF res.ok THEN "ok" ELSE "error")
        /\ UNCHANGED <<apiVars, chanVars, connVars, histVars, dropped, wire>>

\* EkidenClient::set_token
set_token(tok) ==
    /\ auth' = [auth EXCEPT !.token = Some(tok)]
    /\ ret' = Returned("set_token", "ok")
    /\ UNCHANGED <<apiVars, chanVars, connVars, histVars, dropped, wire>>

\* EkidenClient::authorize: an error without a key pair or when the request
\* fails, otherwise the token of the response is stored
authorize ==
    /\ \/ /\ ~auth.key_pair.some
          /\ ret' = Returned("authorize", "auth_error")
          /\ UNCHANGED auth
       \/ /\ auth.key_pair.some
          /\ ret' = Returned("authorize", "request_error")
          /\ UNCHANGED auth
       \/ /\ auth.key_pair.some
          /\ \E tok \in ServerTokens : auth' = [auth EXCEPT !.token = Some(tok)]
          /\ ret' = Returned("authorize", "ok")
    /\ UNCHANGED <<apiVars, chanVars, connVars, histVars, dropped, wire>>

\* the auth calls next to the connection and subscription calls of the
\* same client
NextAuth ==
    \/ \E private_key \in PrivateKeys : set_private_key(private_key)
    \/ \E tok \in Tokens : set_token(tok)
    \/ authorize
    \/ ConnectBegin /\ UNCHANGED sideVars
    \/ ConnectOk /\ UNCHANGED sideVars
    \/ \E t \in Tasks, c \in Channels :
            SubscribeInsert(t, c) /\ Len(endpoints') < MaxEndpoints /\ UNCHANGED sideVars
    \/ \E t \in Tasks : SubscribeSend(t) /\ UNCHANGED sideVars

SpecAuth == Init /\ [][NextAuth]_vars

\* ------------------------------------------------------------ reconnection
\* one handshake more than in Spec, so that a second transport is opened
MoreConns == 1 .. MaxConns + 1

\* the payload of the next event the server sends on transport n; the
\* variant tells the transports apart
EventFrom(n) ==
    [variant |-> IF n = 1 THEN "Trade" ELSE "OrderbookUpdate",
     timestamp |-> SumLen(arrived) + 1]

\* the server sends Event{channel, data} on transport n
LoopEventFrom(n, c) ==
    /\ c \in active_subscriptions => SumLen(arrived) < MaxEvents
    /\ HandleMessage(n, TextFrame(EventText(c, EventFrom(n))))
    /\ arrived' = IF c \in active_subscriptions
                  THEN [arrived EXCEPT ![subscriptions[c]] = Append(@, EventFrom(n))]
                  ELSE arrived

InitMoreConns ==
    /\ connection_status = "Disconnected"
    /\ sender = 0
    /\ subscriptions = [c \in Channels |-> 0]
    /\ endpoints = <<>>
    /\ receivers = <<>>
    /\ pc = [t \in Tasks |-> "idle"]
    /\ targ = [t \in Tasks |-> ""]
    /\ trx = [t \in Tasks |-> 0]
    /\ removed = [t \in Tasks |-> 0]
    /\ mutOp = "none"
    /\ loops = [n \in MoreConns |-> "none"]
    /\ arrived = <<>>
    /\ delivered = <<>>
    /\ ret = NoReturn
    /\ dropped = NothingDropped
    /\ wire = NoWire
    /\ auth = NewAuth

\* a caller that connects again, with or without a disconnect in between
NextMoreConns ==
    \/ ConnectBegin /\ UNCHANGED sideVars
    \/ ConnectFail /\ UNCHANGED sideVars
    \/ ConnectOk /\ UNCHANGED sideVars
    \/ DisconnectCloseSent
    \/ DisconnectClear /\ UNCHANGED sideVars
    \/ \E t \in Tasks, c \in WireChannels :
            SubscribeInsert(t, c) /\ Len(endpoints') < MaxEndpoints /\ UNCHANGED sideVars
    \/ \E t \in Tasks : SubscribeSend(t) /\ UNCHANGED sideVars
    \/ \E t \in Tasks : Ping(t) /\ UNCHANGED sideVars
    \/ \E r \in 1 .. Len(receivers) : Recv(r) /\ UNCHANGED sideVars
    \/ \E n \in MoreConns, c \in WireChannels :
            LoopEventFrom(n, c) /\ UNCHANGED dropped /\ UNCHANGED sideVars
    \/ \E n \in MoreConns, frame \in ControlFrames :
            LoopControl(n, frame) /\ UNCHANGED dropped /\ UNCHANGED sideVars

SpecMoreConns == InitMoreConns /\ [][NextMoreConns]_vars

\* ------------------------------------------------- closure after disconnect
\* disconnect has sent its close frame on transport n
CloseSent(n) == \E i \in DOMAIN wire.out : wire.out[i] = CloseChunk(n)

\* what the stream yields when the transport is closed
ClosureFrames == {CloseFrame, TransportError, EndOfStream}

\* the transport reports the closure to the loop that reads it
ClosureReported(n) ==
    /\ CloseSent(n)
    /\ \E frame \in ClosureFrames : LoopControl(n, frame)
    /\ UNCHANGED dropped /\ UNCHANGED sideVars

\* the calls and the loops with the close frame of disconnect recorded
NextClose ==
    \/ ConnectBegin /\ UNCHANGED sideVars
    \/ ConnectOk /\ UNCHANGED sideVars
    \/ DisconnectCloseSent
    \/ DisconnectClear /\ UNCHANGED sideVars
    \/ \E t \in Tasks, c \in Channels :
            SubscribeInsert(t, c) /\ Len(endpoints') < MaxEndpoints /\ UNCHANGED sideVars
    \/ \E t \in Tasks : SubscribeSend(t) /\ UNCHANGED sideVars
    \/ \E r \in 1 .. Len(receivers) : Recv(r) /\ UNCHANGED sideVars
    \/ \E n \in Conns, c \in EventChannels : LoopEvent(n, c) /\ UNCHANGED dropped /\ UNCHANGED sideVars
    \/ \E n \in Conns, frame \in ControlFrames :
            LoopControl(n, frame) /\ UNCHANGED dropped /\ UNCHANGED sideVars

\* a transport reports its closure once the close frame was sent on it
TransportFairness == \A n \in Conns : WF_vars(ClosureReported(n))

LiveClose == Init /\ [][NextClose]_vars /\ TransportFairness

\* a caller that holds a receiver keeps receiving: recv returns at once when
\* there is a value, a lag or a closure to report
RecvFairness ==
    \A r \in 1 .. MaxEndpoints :
        WF_vars(r <= Len(receivers) /\ Recv(r) /\ UNCHANGED sideVars)

LiveSpec == Init /\ [][Next]_vars /\ RecvFairness

LiveFrames == Init /\ [][NextFrames]_vars /\ RecvFairness

\* ================================================================== properties
Rxs == 1 .. Len(receivers)
Eps == 1 .. Len(endpoints)

NeverConnected == \A n \in Conns : loops[n] = "none"

\* a call of op returns in this step
ConnectReturns == mutOp = "connect" /\ mutOp' = "none"
DisconnectReturns == mutOp = "disconnect" /\ mutOp' = "none"

\* C1: a client just constructed reports Disconnected and is_connected is
\* false, and as long as no transport was ever opened only the start of a
\* connect call moves the status away from Disconnected; when connect returns
\* Ok the status it leaves is Connected and is_connected is true.
C1_StatusAfterNewAndConnect ==
    /\ connection_status = "Disconnected"
    /\ ~is_connected
    /\ [][/\ (NeverConnected /\ connection_status = "Disconnected"
                /\ connection_status' # "Disconnected")
                => (mutOp = "none" /\ mutOp' = "connect")
          /\ (ConnectReturns /\ ret' = Returned("connect", "ok"))
                => (connection_status' = "Connected" /\ is_connected')]_vars

\* connect has just returned Ok
C1_Witness ==
    /\ ret = Returned("connect", "ok")
    /\ mutOp = "none"
    /\ sender # 0
    /\ is_connected

\* C2: when disconnect returns, the status is Disconnected, no send handle
\* is stored and active_subscriptions is empty, whatever the state it was
\* called in.
C2_AfterDisconnect ==
    [][DisconnectReturns =>
          /\ connection_status' = "Disconnected"
          /\ sender' = 0
          /\ active_subscriptions' = {}]_vars

\* C2, the part the receive loop cannot disturb: when disconnect returns no
\* send handle is stored and active_subscriptions is empty.
C2_HandleAndRegistry ==
    [][DisconnectReturns => (sender' = 0 /\ active_subscriptions' = {})]_vars

\* disconnect has just returned and the status is not Disconnected
C2_StatusNotDisconnected ==
    /\ ret = Returned("disconnect", "ok")
    /\ connection_status # "Disconnected"

\* what a receiver has taken out of its channel so far
Consumed(r) ==
    IF LastOf(delivered[r]) = ClosedMark THEN Len(delivered[r]) - 1 ELSE Len(delivered[r])

\* receiver r has at least one event to take and has not fallen behind
InSync(r) ==
    /\ Consumed(r) < Len(arrived[receivers[r].ep])
    /\ Len(arrived[receivers[r].ep]) - Consumed(r) <= BufferLen

\* C3: for a receiver that subscribe returned, every Event frame that arrived
\* for its channel while its entry was the registered one was pushed to it:
\* as long as it has not fallen behind by more than the buffer, its next recv
\* returns the oldest of those events it has not taken yet, with the payload
\* the frame carried.
C3_EventReachesReceiver ==
    \A r \in Rxs :
        (receivers[r].st = "user" /\ InSync(r)) =>
            LET out == RecvOutcome(endpoints[receivers[r].ep], receivers[r].next)
            IN  /\ out.kind = "value"
                /\ out.ev = arrived[receivers[r].ep][Consumed(r) + 1]

\* connected, a receiver that had taken everything has one event waiting
C3_Witness ==
    /\ is_connected
    /\ \E r \in Rxs :
        /\ receivers[r].st = "user"
        /\ Len(arrived[receivers[r].ep]) = Consumed(r) + 1
        /\ subscriptions[endpoints[receivers[r].ep].channel] = receivers[r].ep

\* subscribe returns in this step
SubscribeReturns(t) == pc[t] = "subscribe_send" /\ pc'[t] = "idle"

\* C4: a subscribe that reaches send_request while no send handle is stored
\* returns the not-connected error and its receiver is dropped, never handed
\* to the caller.
C4_SubscribeNotConnected ==
    [][\A t \in Tasks :
          (SubscribeReturns(t) /\ sender = 0) =>
              /\ ret' = Returned("subscribe", "not_connected")
              /\ receivers'[trx[t]].st = "dropped"
              /\ \A r \in Rxs : receivers'[r].st = "user" => receivers[r].st = "user"]_vars

\* subscribe has just failed on a client that was connected and disconnected
C4_Witness ==
    /\ ret = Returned("subscribe", "not_connected")
    /\ sender = 0
    /\ ~NeverConnected
    /\ receivers # <<>>
    /\ \A r \in Rxs : receivers[r].st = "dropped"

\* unsubscribe returns in this step
UnsubscribeReturns(t) == pc[t] = "unsubscribe_send" /\ pc'[t] = "idle"

\* unsubscribe starts in this step and finds no entry for its channel
UnsubscribeFindsNothing(t) ==
    pc[t] = "idle" /\ pc'[t] = "unsubscribe_send" /\ removed'[t] = 0

\* C5: an unsubscribe for a channel with no entry returns success and leaves
\* the registry unchanged.
C5_UnsubscribeIdempotent ==
    [][\A t \in Tasks :
          /\ UnsubscribeFindsNothing(t) => UNCHANGED <<subscriptions, endpoints>>
          /\ (UnsubscribeReturns(t) /\ removed[t] = 0) =>
                (ret' = Returned("unsubscribe", "ok") /\ UNCHANGED subscriptions)]_vars

\* C5 amended: an unsubscribe for a channel with no entry leaves the registry
\* unchanged, returns the not-connected error when no send handle is stored,
\* and returns success only when a send handle is stored.
C5_UnsubscribeNoEntry ==
    [][\A t \in Tasks :
          /\ UnsubscribeFindsNothing(t) => UNCHANGED <<subscriptions, endpoints>>
          /\ (UnsubscribeReturns(t) /\ removed[t] = 0) =>
                /\ UNCHANGED <<subscriptions, endpoints>>
                /\ ret'.op = "unsubscribe"
                /\ sender = 0 => ret'.res = "not_connected"
                /\ sender # 0 => ret'.res \in {"ok", "send_error"}]_vars

\* an unsubscribe on a client that never had an entry returned an error
C5_ErrorReturned ==
    /\ ret = Returned("unsubscribe", "not_connected")
    /\ endpoints = <<>>

\* what the next recv of each receiver would return
NextRecv == [r \in Rxs |-> RecvOutcome(endpoints[receivers[r].ep], receivers[r].next)]

\* the frame handled in this step was an Event for a channel with no entry
UnknownEventStep ==
    /\ dropped' \in {Dropped("unknown_channel"), Dropped("removed_channel")}
    /\ dropped' # dropped

\* C6: an Event frame for a channel with no registry entry makes
\* process_message return Ok, changes what no receiver of any channel has
\* received or would receive next, and leaves the registry, the endpoints and
\* the status as they were, with the loop that read it still running.
C6_UnknownChannelDropped ==
    /\ \A c \in EventChannels, k \in 1 .. MaxEvents : ProcessResult(EventText(c, Trade(k))) = "ok"
    /\ [][UnknownEventStep =>
              /\ UNCHANGED <<subscriptions, connection_status, endpoints, receivers, delivered>>
              /\ NextRecv' = NextRecv
              /\ loops' = loops]_vars

\* an Event for a channel with no entry was handled while a receiver of
\* another channel was held by a caller
C6_Witness ==
    /\ dropped.kind = "unknown_channel"
    /\ active_subscriptions # {}
    /\ \E r \in Rxs : receivers[r].st = "user" /\ ~endpoints[receivers[r].ep].closed
    /\ \E n \in Conns : loops[n] = "running"

\* the frame handled in this step was a text that is no WsResponse
MalformedStep == dropped' = Dropped("malformed") /\ dropped' # dropped

\* an Event for a registered channel is handled in this step
RegisteredEventStep == \E e \in Eps : Len(arrived'[e]) = Len(arrived[e]) + 1

\* C9: a text frame that does not deserialize leaves the status, the registry
\* and the endpoints as they were and the loop that read it running; an Event
\* for a registered channel handled after it is stored for every receiver
\* alive on that channel, whose next recv returns it when it had taken all
\* earlier events.
C9_MalformedFrameDropped ==
    [][/\ MalformedStep =>
              /\ UNCHANGED <<subscriptions, connection_status, endpoints, receivers, delivered>>
              /\ loops' = loops
       /\ (dropped.kind = "malformed" /\ RegisteredEventStep) =>
              \A r \in Rxs :
                  (/\ receivers[r].st \in {"held", "user"}
                   /\ Len(arrived'[receivers[r].ep]) = Len(arrived[receivers[r].ep]) + 1
                   /\ Consumed(r) = Len(arrived[receivers[r].ep]))
                  => /\ NextRecv'[r].kind = "value"
                     /\ NextRecv'[r].ev = LastOf(arrived'[receivers[r].ep])]_vars

\* after a malformed frame an Event was pushed, and a receiver has taken it
C9_Witness ==
    /\ dropped = [kind |-> "malformed", then |-> TRUE]
    /\ \E r \in Rxs :
        /\ receivers[r].st = "user"
        /\ delivered[r] # <<>>
        /\ LastOf(delivered[r]) = Trade(SumLen(arrived))

Lagged(r) == \E i \in 1 .. Len(delivered[r]) : delivered[r][i] = LaggedMark

\* C10: what a receiver that never lagged has received is, event by event
\* and in order, the sequence of events the loops took from the transport for
\* its channel entry, from the first one on.
C10_InOrderDelivery ==
    \A r \in Rxs :
        ~Lagged(r) =>
            /\ Consumed(r) <= Len(arrived[receivers[r].ep])
            /\ \A i \in 1 .. Consumed(r) : delivered[r][i] = arrived[receivers[r].ep][i]

\* a receiver has received more events than the buffer holds, all of them
C10_Witness ==
    \E r \in Rxs :
        /\ ~Lagged(r)
        /\ Consumed(r) > BufferLen
        /\ Consumed(r) = Len(arrived[receivers[r].ep])

\* receiver r exists and has reported the closed condition
ReportedClosed(r) == IF r \in Rxs THEN LastOf(delivered[r]) = ClosedMark ELSE FALSE

\* receiver r is held and its entry is the one an unsubscribe in progress removed
HeldAndRemoved(r) ==
    IF r \in Rxs
    THEN receivers[r].st = "user" /\ \E t \in Tasks : removed[t] = receivers[r].ep
    ELSE FALSE

\* receiver r is held and disconnect has just returned
HeldAtDisconnect(r) == IF r \in Rxs THEN receivers[r].st = "user" /\ ret = Returned("disconnect", "ok") ELSE FALSE

\* unsubscribe removes an entry in this step
UnsubscribeRemoves(t) ==
    pc[t] = "idle" /\ pc'[t] = "unsubscribe_send" /\ removed'[t] # 0

\* C7: the entry unsubscribe removes is gone from the registry and its
\* endpoint is closed; a closed endpoint stores no further event, so what its
\* receiver yields are events that arrived while the entry was registered;
\* and a receiver of the removed entry that keeps receiving eventually
\* reports the closed condition, after which it yields nothing.
C7_UnsubscribedReceiverCloses ==
    /\ [][/\ \A t \in Tasks : UnsubscribeRemoves(t) =>
                  /\ endpoints'[removed'[t]].closed
                  /\ \A c \in DOMAIN subscriptions : subscriptions'[c] # removed'[t]
          /\ \A e \in Eps : endpoints[e].closed => endpoints'[e] = endpoints[e]
          /\ \A r \in Rxs : ReportedClosed(r) => delivered'[r] = delivered[r]]_vars
    /\ [](\A r \in Rxs : \A i \in 1 .. Consumed(r) :
              delivered[r][i] \in {LaggedMark, arrived[receivers[r].ep][i]})
    /\ \A r \in 1 .. MaxEndpoints :
          HeldAndRemoved(r) ~> ReportedClosed(r)

\* after unsubscribe returned, an Event for the removed channel was handled
\* and the receiver, which had received an event before, reported closed
C7_Witness ==
    /\ ret = Returned("unsubscribe", "ok")
    /\ dropped.kind = "removed_channel"
    /\ \E r \in Rxs :
        /\ receivers[r].st = "user"
        /\ ReportedClosed(r)
        /\ Consumed(r) > 0
        /\ Consumed(r) = Len(arrived[receivers[r].ep])

\* C8: when disconnect returns every endpoint is closed and the registry is
\* empty; every receiver a caller holds at that point eventually reports the
\* closed condition if it keeps receiving, only once it has gone through all
\* the events stored before the clear, and yields nothing afterwards.
C8_DisconnectClosesReceivers ==
    /\ [][/\ DisconnectReturns =>
                  /\ \A e \in Eps : endpoints'[e].closed
                  /\ active_subscriptions' = {}
          /\ \A r \in Rxs :
                  (ReportedClosed(r)' /\ ~ReportedClosed(r)) =>
                      /\ Consumed(r) = Len(arrived[receivers[r].ep])
                      /\ arrived'[receivers[r].ep] = arrived[receivers[r].ep]
          /\ \A r \in Rxs :
                  ReportedClosed(r) =>
                      /\ delivered'[r] = delivered[r]
                      /\ endpoints'[receivers[r].ep] = endpoints[receivers[r].ep]]_vars
    /\ \A r \in 1 .. MaxEndpoints :
          HeldAtDisconnect(r) ~> ReportedClosed(r)

\* disconnect returned while two receivers were attached, one with an event
\* still buffered; both have since reported closed, the event taken first
C8_Witness ==
    /\ ret = Returned("disconnect", "ok")
    /\ Len(receivers) >= 2
    /\ \A r \in Rxs : receivers[r].st = "user" /\ ReportedClosed(r)
    /\ \E r \in Rxs : Consumed(r) > 0 /\ Consumed(r) = Len(arrived[receivers[r].ep])

\* two different receivers held by callers on the same endpoint
SameEndpoint(r, q) ==
    /\ r # q
    /\ receivers[r].ep = receivers[q].ep
    /\ receivers[r].st = "user"
    /\ receivers[q].st = "user"

\* position i of the history of r holds an event
IsEvent(r, i) == delivered[r][i] \notin {LaggedMark, BeforeMark, ClosedMark}

\* C11: of two receivers on one endpoint, each that is not more than the
\* buffer behind gets as its next value the oldest event of the channel it has
\* not taken, wherever the other one stands; the events both have taken are
\* the same, in the order of arrival; and a receive on one changes neither
\* what the other has received nor what it would receive next.
C11_FanOutIsolation ==
    /\ [](\A r \in Rxs, q \in Rxs :
            SameEndpoint(r, q) =>
                /\ InSync(r) =>
                      /\ NextRecv[r].kind = "value"
                      /\ NextRecv[r].ev = arrived[receivers[r].ep][Consumed(r) + 1]
                /\ \A i \in 1 .. Consumed(r) :
                      IsEvent(r, i) => delivered[r][i] = arrived[receivers[r].ep][i]
                /\ \A i \in 1 .. Consumed(r) :
                      (i <= Consumed(q) /\ IsEvent(r, i) /\ IsEvent(q, i))
                          => delivered[r][i] = delivered[q][i])
    /\ [][\A r \in Rxs, q \in Rxs :
            (SameEndpoint(r, q) /\ delivered'[q] # delivered[q] /\ Len(receivers') = Len(receivers))
                => /\ delivered'[r] = delivered[r]
                   /\ NextRecv'[r] = NextRecv[r]]_vars

\* two receivers on one endpoint: one has taken two events, the other only
\* the first of them
C11_Witness ==
    \E r \in Rxs, q \in Rxs :
        /\ SameEndpoint(r, q)
        /\ Consumed(r) = 2 /\ IsEvent(r, 1) /\ IsEvent(r, 2)
        /\ Consumed(q) = 1 /\ IsEvent(q, 1)
        /\ delivered[q][1] = delivered[r][1]

\* subscribe inserts in this step an entry for a channel that has one
SubscribeReplaces(t, c) ==
    pc[t] = "idle" /\ pc'[t] = "subscribe_send" /\ targ'[t] = c /\ subscriptions[c] # 0

\* endpoint e stores an event in this step
Stores(e) == endpoints'[e].pos = endpoints[e].pos + 1

\* C12: every open endpoint is the registry's entry for its channel, so no
\* channel has two; a subscribe on a registered channel puts its new endpoint
\* in the registry and closes the one it replaces; an endpoint stores an
\* event only while it is the entry of its channel, and the entry of the
\* channel of an Event stores it whenever a receiver is alive on it.
C12_OneEndpointPerChannel ==
    /\ [](\A e \in Eps : ~endpoints[e].closed <=> subscriptions[endpoints[e].channel] = e)
    /\ [](\A e \in Eps, f \in Eps :
            (e # f /\ endpoints[e].channel = endpoints[f].channel)
                => (endpoints[e].closed \/ endpoints[f].closed))
    /\ [][/\ \A t \in Tasks, c \in Channels :
                SubscribeReplaces(t, c) =>
                    /\ subscriptions'[c] = Len(endpoints')
                    /\ subscriptions'[c] # subscriptions[c]
                    /\ endpoints'[subscriptions[c]].closed
                    /\ receivers'[trx'[t]].ep = subscriptions'[c]
          /\ \A e \in Eps :
                /\ Stores(e) => subscriptions[endpoints[e].channel] = e
                /\ endpoints[e].closed => endpoints'[e].pos = endpoints[e].pos
                /\ (Len(arrived'[e]) = Len(arrived[e]) + 1 /\ RxCount(receivers, e) > 0)
                      => Stores(e)]_vars

\* a channel was subscribed twice; an event that arrived afterwards was
\* received on the second receiver, and the first one has only reported closed
C12_Witness ==
    /\ Len(endpoints) = 2
    /\ endpoints[1].channel = endpoints[2].channel
    /\ receivers[1].st = "user" /\ receivers[2].st = "user"
    /\ delivered[1] = <<ClosedMark>>
    /\ delivered[2] # <<>> /\ delivered[2] = arrived[2]

\* how many events receiver r has yet to take
Behind(r) == Len(arrived[receivers[r].ep]) - Consumed(r)

\* receiver r is told in this step that it lagged
LaggedStep(r) ==
    /\ delivered'[r] # delivered[r]
    /\ LastOf(delivered'[r]) = LaggedMark

\* the loops and the status go on as they were
LoopGoesOn == loops' = loops /\ connection_status' = connection_status

\* C13 as stated: a receiver that is more than the capacity handed to
\* broadcast::channel behind gets Lagged on its next receive.
C13_LaggedBeyondCapacity ==
    \A r \in Rxs :
        (receivers[r].st = "user" /\ Behind(r) > Capacity) => NextRecv[r].kind = "lagged"

\* C13 amended: whatever the receivers have or have not read, a running loop
\* can take the next Event frame, which is stored on its endpoint if a
\* receiver is alive there and leaves the endpoint untouched if none is, the
\* loop and the status going on as they were; a receiver that is more than
\* the length of the ring (the capacity rounded up to a power of two) behind
\* gets Lagged on its next receive, and the receive after that returns the
\* oldest event the ring still holds.
C13_PushNeverBlocks ==
    /\ [](\A n \in Conns, c \in EventChannels :
            (loops[n] = "running" /\ SumLen(arrived) < MaxLagEvents)
                => ENABLED (LoopEventUpTo(n, c, MaxLagEvents) /\ UNCHANGED dropped))
    /\ [](\A r \in Rxs :
            (receivers[r].st = "user" /\ Behind(r) > BufferLen) => NextRecv[r].kind = "lagged")
    /\ [][/\ \A e \in Eps :
                Len(arrived'[e]) = Len(arrived[e]) + 1 =>
                    /\ LoopGoesOn
                    /\ RxCount(receivers, e) > 0 => Stores(e)
                    /\ RxCount(receivers, e) = 0 => endpoints'[e] = endpoints[e]
                    /\ \A f \in Eps : f # e => endpoints'[f] = endpoints[f]
          /\ \A r \in Rxs :
                LaggedStep(r) =>
                    /\ NextRecv'[r].kind = "value"
                    /\ NextRecv'[r].ev = arrived[receivers[r].ep][Consumed(r)' + 1]
                    /\ Behind(r)' = BufferLen]_vars

\* a receiver that read nothing while more events arrived than the ring holds
\* was told it lagged and then received an event
C13_Witness ==
    \E r \in Rxs :
        /\ receivers[r].st = "user"
        /\ Len(delivered[r]) >= 2
        /\ delivered[r][1] = LaggedMark
        /\ LastOf(delivered[r]) = arrived[receivers[r].ep][Len(delivered[r])]
        /\ Len(arrived[receivers[r].ep]) > BufferLen

\* the loop of transport n can handle some frame
CanHandle(n) ==
    \/ \E c \in EventChannels : ENABLED (LoopEvent(n, c) /\ UNCHANGED dropped)
    \/ \E text \in InfoTexts : ENABLED (LoopInfo(n, text) /\ UNCHANGED dropped)
    \/ \E text \in MalformedTexts : ENABLED (LoopMalformed(n, text) /\ UNCHANGED dropped)
    \/ \E frame \in ControlFrames : ENABLED (LoopControl(n, frame) /\ UNCHANGED dropped)

\* C14: the step in which a loop reads a Close frame stores Disconnected,
\* ends that loop and touches nothing else; a loop that has ended stays
\* ended and handles no further frame.
C14_CloseFrameEndsLoop ==
    /\ [][\A n \in Conns :
            /\ LoopControl(n, CloseFrame) =>
                  /\ connection_status' = "Disconnected"
                  /\ loops'[n] = "done"
                  /\ UNCHANGED <<subscriptions, endpoints, receivers, sender>>
            /\ loops[n] = "done" => loops'[n] = "done"]_vars
    /\ [](\A n \in Conns : loops[n] = "done" => ~CanHandle(n))

\* the loop ended on a Close frame: the handle is still stored, the status
\* is Disconnected
C14_Witness ==
    /\ sender # 0
    /\ loops[sender] = "done"
    /\ connection_status = "Disconnected"
    /\ ret = Returned("connect", "ok")

\* C15: the step in which a loop gets a transport error stores Failed and
\* ends that loop; it changes no call in progress and no call result, the
\* handle and the registry stay as they were, and no loop starts except by
\* a connect call that returns.
C15_TransportErrorEndsLoop ==
    [][\A n \in Conns :
          /\ LoopControl(n, TransportError) =>
                /\ connection_status' = "Failed"
                /\ loops'[n] = "done"
                /\ ret' = ret
                /\ UNCHANGED <<apiVars, sender, subscriptions, endpoints, receivers>>
          /\ (loops[n] # "running" /\ loops'[n] = "running") => ConnectReturns]_vars

\* the loop ended on a transport error while the last call to return was the
\* connect that succeeded
C15_Witness ==
    /\ sender # 0
    /\ loops[sender] = "done"
    /\ connection_status = "Failed"
    /\ ret = Returned("connect", "ok")

\* receiver r is held while the status is Failed and no loop runs
HeldAtFailure(r) ==
    IF r \in Rxs
    THEN /\ receivers[r].st = "user"
         /\ connection_status = "Failed"
         /\ \A n \in Conns : loops[n] # "running"
    ELSE FALSE

\* C16: every receiver held when a transport failure has ended the loop
\* eventually reports the closed condition.
C16_FailureClosesReceivers ==
    \A r \in 1 .. MaxEndpoints : HeldAtFailure(r) ~> ReportedClosed(r)

\* C16, what the failure does leave: the step in which a loop gets a
\* transport error closes no endpoint and removes no registry entry.
C16_FailureKeepsRegistry ==
    [][\A n \in Conns :
          LoopControl(n, TransportError) => UNCHANGED <<subscriptions, endpoints>>]_vars

\* after a transport failure a held receiver waits on an endpoint that is
\* still registered and open, with nothing to receive
C16_ReceiverLeftWaiting ==
    \E r \in Rxs :
        /\ HeldAtFailure(r)
        /\ mutOp = "none" /\ AllIdle
        /\ ~endpoints[receivers[r].ep].closed
        /\ NextRecv[r].kind = "empty"

\* connect returns the handshake's error in this step
ConnectFails == ConnectReturns /\ ret' = Returned("connect", "transport_error")

\* a step of a connect call that does not return Ok
InFailingConnect ==
    /\ mutOp = "connect" \/ mutOp' = "connect"
    /\ ~(ConnectReturns /\ ret' = Returned("connect", "ok"))

\* C17 as stated: a connect whose handshake fails leaves the status at
\* Connecting.
C17_FailedConnectLeavesConnecting ==
    [][ConnectFails => connection_status' = "Connecting"]_vars

\* C17 amended: a connect whose handshake fails returns a transport error
\* and stores nothing after the Connecting it stored at its start; no step
\* of the call stores a handle, changes the registry or starts a loop, and
\* the status is never Connected through it.  The status at the return is
\* Connecting unless the loop of an earlier transport has stored Disconnected
\* or Failed during the handshake.
C17_FailedConnect ==
    /\ [][/\ ConnectFails =>
                /\ connection_status' = connection_status
                /\ connection_status' \in {"Connecting", "Disconnected", "Failed"}
          /\ InFailingConnect =>
                /\ UNCHANGED <<sender, subscriptions>>
                /\ \A n \in Conns : loops'[n] = "running" => loops[n] = "running"
                /\ \A e \in Eps : endpoints'[e].closed = endpoints[e].closed
                /\ connection_status' # "Connected"
          /\ (mutOp = "connect" /\ mutOp' = "connect" /\ connection_status' # connection_status)
                => /\ connection_status' \in {"Disconnected", "Failed"}
                   /\ \E n \in Conns : loops[n] = "running" /\ loops'[n] = "done"]_vars
    /\ []((mutOp = "connect" /\ NeverConnected) => connection_status = "Connecting")

\* a first connect has failed: transport error returned, status Connecting,
\* no handle, no loop
C17_Witness ==
    /\ ret = Returned("connect", "transport_error")
    /\ connection_status = "Connecting"
    /\ NeverConnected
    /\ sender = 0

\* C18: the status is never Reconnecting; a loop starts and a handle is
\* stored only in the step in which a connect call returns Ok, so once a
\* loop has ended nothing opens a transport but another connect.
C18_NeverReconnecting ==
    /\ [](connection_status \in Statuses \ {"Reconnecting"})
    /\ [][/\ \A n \in Conns :
                (loops'[n] = "running" /\ loops[n] # "running")
                    => (ConnectReturns /\ ret' = Returned("connect", "ok"))
          /\ (sender' # sender /\ sender' # 0)
                => (ConnectReturns /\ ret' = Returned("connect", "ok"))
          /\ (\A n \in Conns : loops[n] # "running") =>
                (\A e \in Eps : endpoints'[e].pos = endpoints[e].pos)]_vars

\* the only loop has ended on an error and a later call has failed on the
\* dead transport; no loop runs
C18_Witness ==
    /\ ~NeverConnected
    /\ \A n \in Conns : loops[n] # "running"
    /\ connection_status = "Failed"
    /\ ret = Returned("ping", "send_error")

\* the frame handled in this step was a Pong, Subscribed, Unsubscribed or
\* Error
InfoStep == dropped' = Dropped("info") /\ dropped' # dropped

\* a call changes the registry in this step
RegistryCall ==
    \/ \E t \in Tasks : pc[t] = "idle" /\ pc'[t] \in {"subscribe_send", "unsubscribe_send"}
    \/ DisconnectReturns

\* C19: a Pong, Subscribed, Unsubscribed or Error frame makes process_message
\* return Ok and leaves the registry, the endpoints, the status and the loop
\* as they were, and what every receiver has received and would receive
\* next; the registry changes only in a step of subscribe, unsubscribe or
\* disconnect.
C19_InfoFramesNoEffect ==
    /\ \A text \in InfoTexts : ProcessResult(text) = "ok"
    /\ [][/\ (InfoStep \/ \E n \in Conns, text \in InfoTexts : LoopInfo(n, text)) =>
                /\ UNCHANGED <<subscriptions, connection_status, endpoints, receivers, delivered>>
                /\ NextRecv' = NextRecv
                /\ loops' = loops
          /\ subscriptions' # subscriptions => RegistryCall]_vars

\* an informational frame was handled on a connected client with a
\* registered channel and a receiver held
C19_Witness ==
    /\ dropped.kind = "info"
    /\ is_connected
    /\ "orderbook/0xA" \in active_subscriptions
    /\ \E r \in Rxs : receivers[r].st = "user" /\ ~endpoints[receivers[r].ep].closed
    /\ \E n \in Conns : loops[n] = "running"

\* the identifiers of the claim: no '/' in them
ValidIds == {a \in Ids : \A i \in DOMAIN a : a[i] # "/"}

\* the step of task t registers key and nothing else
Registers(t, key) ==
    /\ active_subscriptions' = active_subscriptions \cup {key}
    /\ endpoints'[subscriptions'[key]].channel = key
    /\ subscriptions'[key] = Len(endpoints')
    /\ targ'[t] = key

\* the strings of test_channel_helpers
Str0x123 == <<"0", "x", "1", "2", "3">>
Str1m == <<"1", "m">>

\* C20: each constructor gives equal strings for equal arguments and the
\* strings of test_channel_helpers; for identifiers without '/' no two
\* constructors of different stream kinds give the same string; and a call
\* of subscribe_orderbook, subscribe_trades or subscribe_user registers
\* exactly the key the constructor of that kind builds from the same
\* identifier, so that unsubscribing from the built key removes it.
C20_ChannelNaming ==
    /\ orderbook(Str0x123) = OrderbookKind \o <<"/", "0", "x", "1", "2", "3">>
    /\ candles(Str0x123, Str1m) = CandlesKind \o <<"/", "0", "x", "1", "2", "3", "/", "1", "m">>
    /\ \A a, b \in Ids :
            a = b => /\ orderbook(a) = orderbook(b) /\ trades(a) = trades(b)
                     /\ user(a) = user(b)
                     /\ \A i \in Ids : candles(a, i) = candles(b, i)
    /\ \A a, b \in ValidIds :
            /\ orderbook(a) # trades(b) /\ orderbook(a) # user(b) /\ trades(a) # user(b)
            /\ \A i \in ValidIds : candles(a, i) \notin {orderbook(b), trades(b), user(b)}
    /\ [][\A t \in Tasks :
            /\ \A a \in Ids :
                  /\ subscribe_orderbook(t, a) => Registers(t, orderbook(a))
                  /\ subscribe_trades(t, a) => Registers(t, trades(a))
                  /\ subscribe_user(t, a) => Registers(t, user(a))
            /\ \A c \in BuiltKeys :
                  UnsubscribeRemove(t, c) => active_subscriptions' = active_subscriptions \ {c}]_vars

\* subscribe_orderbook and subscribe_trades were called with the same
\* identifier and got different endpoints; the unsubscribe from the built
\* orderbook key removed the first and left the trades key registered
C20_Witness ==
    \E a \in ValidIds, t \in Tasks :
        /\ a # <<>>
        /\ removed[t] # 0
        /\ endpoints[removed[t]].channel = OrderbookChannel(a)
        /\ targ[t] = orderbook(a)
        /\ active_subscriptions = {trades(a)}
        /\ subscriptions[trades(a)] # removed[t]

\* the tasks inside send_request that hold the sink / that wait for it
Writing(t) == t \in wire.holders
Waiting(t) == pc[t] \in SendPcs /\ sender # 0 /\ t \notin wire.holders

\* a part of a frame reaches the wire in this step
WritesPart == wire'.out # wire.out /\ wire'.holders = wire.holders

\* C21: at most one task holds the send half, only the holder has a frame
\* partly written, a part is written only while no other task holds the sink
\* or has a frame in progress, and on the wire every tail part directly
\* follows the head part of the same frame on the same transport.
C21_NoInterleavedWrites ==
    /\ [](/\ Cardinality(wire.holders) <= 1
          /\ \A t \in WireTasks : wire.parts[t] > 0 => Writing(t)
          /\ \A i \in DOMAIN wire.out :
                wire.out[i].part = "tail" =>
                    /\ i > 1
                    /\ wire.out[i - 1] = [wire.out[i] EXCEPT !.part = "head"])
    /\ [][WritesPart =>
            \E t \in WireTasks :
                /\ wire.holders = {t}
                /\ wire'.parts[t] = wire.parts[t] + 1
                /\ \A u \in WireTasks \ {t} : wire.parts[u] = 0]_vars

\* one task has written the head of its frame while another task, inside
\* send_request with a different request, waits for the sink, after a whole
\* frame was written before
C21_Witness ==
    \E t, u \in WireTasks :
        /\ t # u
        /\ Writing(t) /\ wire.parts[t] = 1
        /\ Waiting(u)
        /\ pc[t] # pc[u]
        /\ Len(wire.out) = 3
        /\ wire.out[3].part = "head"

\* a call of set_private_key returns in this step
SetPrivateKeyStep == ret'.op = "set_private_key" /\ \E k \in PrivateKeys : set_private_key(k)

\* C22: a new client is not authenticated and has no token; a call of
\* set_private_key, whether the key parses or not, leaves the token and
\* is_authenticated as they were, so that a new client that was only given a
\* key is not authenticated; after set_token(t) is_authenticated is true and
\* token returns t; and is_authenticated is true exactly when a token is
\* stored, whatever the key pair.
C22_AuthDependsOnToken ==
    /\ ~is_authenticated /\ token = None
    /\ [](is_authenticated <=> token # None)
    /\ [][/\ SetPrivateKeyStep => (token' = token /\ is_authenticated' = is_authenticated)
          /\ \A tok \in Tokens : set_token(tok) => (is_authenticated' /\ token' = Some(tok))
          /\ (token = None /\ token' # None) => ret'.op \in {"set_token", "authorize"}]_vars

\* the flow of test_client_auth_flow: a key was set and then the token
\* "test_token", which token returns
C22_Witness ==
    /\ has_key_pair
    /\ ret = Returned("set_token", "ok")
    /\ token = Some("test_token")
    /\ is_authenticated

\* the whole Subscribe frame for c is on the wire of transport n
SubscribeWritten(n, c) ==
    \E i \in DOMAIN wire.out :
        wire.out[i] = Chunk(n, [type |-> "subscribe", channel |-> c], "tail")

\* the endpoint task t's subscribe call created
OwnEndpoint(t) == IF trx[t] \in Rxs THEN receivers[trx[t]].ep ELSE 0

\* task t's subscribe call has inserted its endpoint under its channel, and
\* the entry is still there unless a later call took it out
InsertedBy(t) ==
    /\ OwnEndpoint(t) \in Eps
    /\ endpoints[OwnEndpoint(t)].channel = targ[t]
    /\ subscriptions[targ[t]] = OwnEndpoint(t) \/ endpoints[OwnEndpoint(t)].closed

\* the dispatcher takes an Event for c from transport n
EventTaken(n, c) == LoopEvent(n, c)

\* C23 as stated: once a successful subscribe has written its frame for c,
\* no Event for c reaches the dispatcher while c has no registry entry.
C23_NoEventWithoutEntry ==
    [][\A n \in Conns, c \in WireChannels :
            (EventTaken(n, c) /\ SubscribeWritten(n, c)) => c \in active_subscriptions]_vars

\* C23 amended: subscribe writes its frame only after it inserted its
\* endpoint under c; the call that returns Ok wrote the two parts of exactly
\* one frame {type: subscribe, channel: c}; and an Event for c that arrives
\* after that frame finds no entry for c only if an endpoint for c was
\* inserted and taken out again by unsubscribe (or replaced and taken out).
C23_InsertBeforeFrame ==
    [][/\ \A t \in WireTasks :
            /\ (pc[t] = "subscribe_send" /\ (SinkLock(t) \/ SinkWrite(t))) => InsertedBy(t)
            /\ (pc[t] = "subscribe_send" /\ SinkWrite(t)) =>
                    wire'.out = Append(wire.out,
                        Chunk(sender, [type |-> "subscribe", channel |-> targ[t]],
                              FrameParts[wire.parts[t] + 1]))
            /\ (pc[t] = "subscribe_send" /\ SinkDone(t)) =>
                    /\ ret' = Returned("subscribe", "ok")
                    /\ wire.parts[t] = Len(FrameParts)
                    /\ wire'.out = wire.out
                    /\ SubscribeWritten(sender, targ[t])
                    /\ InsertedBy(t)
       /\ \A n \in Conns, c \in WireChannels :
            (EventTaken(n, c) /\ SubscribeWritten(n, c) /\ c \notin active_subscriptions) =>
                \E e \in Eps : endpoints[e].channel = c /\ endpoints[e].closed]_vars

\* a subscribe returned Ok after its frame was written, its entry is
\* registered, and an event for the channel was taken and stored since
C23_Witness ==
    \E c \in WireChannels :
        /\ SubscribeWritten(sender, c)
        /\ c \in active_subscriptions
        /\ arrived[subscriptions[c]] # <<>>
        /\ \E r \in Rxs : receivers[r].st = "user" /\ receivers[r].ep = subscriptions[c]

\* connect returns Ok on a client that holds a send handle
SecondConnectReturns == ConnectReturns /\ ret' = Returned("connect", "ok") /\ sender # 0

\* the loop of transport n pushes an event to the live endpoint of c
PushesFrom(n, c) ==
    /\ LoopEventFrom(n, c)
    /\ c \in active_subscriptions
    /\ RxCount(receivers, subscriptions[c]) > 0

\* C24: a connect that succeeds while a send handle is stored opens a new
\* transport, stores its handle in place of the old one, starts its loop and
\* leaves every other loop, the registry and the endpoints as they were; and
\* the loop of any transport, the replaced one included, pushes the events it
\* takes into the endpoint the one registry holds for the channel.
C24_SecondConnectKeepsFirstLoop ==
    [][/\ SecondConnectReturns =>
            /\ sender' \notin {0, sender}
            /\ loops[sender'] = "none" /\ loops'[sender'] = "running"
            /\ \A m \in MoreConns \ {sender'} : loops'[m] = loops[m]
            /\ connection_status' = "Connected"
            /\ UNCHANGED <<subscriptions, endpoints, receivers>>
       /\ \A n \in MoreConns, c \in WireChannels :
            PushesFrom(n, c) =>
                LET e == subscriptions[c]
                IN  /\ endpoints'[e].pos = endpoints[e].pos + 1
                    /\ endpoints'[e].buffer[endpoints[e].pos % BufferLen].val = EventFrom(n)
                    /\ UNCHANGED subscriptions]_vars

\* no call has returned since the second connect did, on a client that was
\* connected and subscribed: both loops run, the handle is the second
\* transport's, and the receiver subscribe returned before has received an
\* event taken by the second loop and then one taken by the first
C24_Witness ==
    /\ ret = Returned("connect", "ok")
    /\ sender = 2
    /\ loops[1] = "running" /\ loops[2] = "running"
    /\ is_connected
    /\ \E r \in Rxs :
          /\ receivers[r].st = "user"
          /\ ~endpoints[receivers[r].ep].closed
          /\ \E i, j \in DOMAIN delivered[r] :
                /\ i < j
                /\ delivered[r][i].variant = "OrderbookUpdate"
                /\ delivered[r][j].variant = "Trade"

\* a step of disconnect
DisconnectStep == (mutOp = "none" /\ mutOp' = "disconnect") \/ DisconnectReturns

\* the loop of transport n still runs after the close frame went out on it
RunsAfterClose(n) == CloseSent(n) /\ loops[n] = "running"

\* C25: no step of disconnect changes the state of a receive loop; and when
\* the transport reports the closure after the close frame was sent (a Close
\* frame, an error or the end of the stream), the loop of that transport
\* eventually terminates.
C25_LoopEndsAfterClosure ==
    /\ [][DisconnectStep => loops' = loops]_vars
    /\ \A n \in Conns : RunsAfterClose(n) ~> loops[n] = "done"

\* disconnect has returned and the loop of the transport it closed still
\* runs
C25_Witness ==
    /\ ret = Returned("disconnect", "ok")
    /\ sender = 0
    /\ \E n \in Conns : RunsAfterClose(n)

\* a call returns the not-connected error of send_request in this step
NotConnectedReturned == ret' # ret /\ ret'.res = "not_connected"

\* C26: whenever the status is Connected a send handle is stored, so that
\* send_request cannot take its not-connected exit while is_connected is
\* true, and no call returns the not-connected error in a step that starts
\* with is_connected true.
C26_ConnectedHasHandle ==
    /\ [](is_connected => (sender # 0 /\ "not_connected" \notin SendRequest(sender)))
    /\ [][NotConnectedReturned => ~is_connected]_vars

\* after a second connect, with the loop of the first transport ended: the
\* status is Connected, the handle is the second transport's, and a ping has
\* just been written
C26_Witness ==
    /\ is_connected
    /\ sender = 2
    /\ loops[1] = "done"
    /\ ret = Returned("ping", "ok")

\* task t's subscribe returns the not-connected error in this step
SubscribeFailsUnconnected(t) ==
    SubscribeReturns(t) /\ ret' = Returned("subscribe", "not_connected")

\* C27 as stated: when subscribe(c) returns the not-connected error,
\* is_subscribed(c) is true and c is in active_subscriptions, and no
\* receiver was handed to the caller.
C27_FailedSubscribeRegistered ==
    [][\A t \in DOMAIN pc :
            SubscribeFailsUnconnected(t) =>
                /\ receivers'[trx[t]].st = "dropped"
                /\ \E c \in Channels :
                      c = targ[t] /\ is_subscribed(c)' /\ c \in active_subscriptions']_vars

\* C27 amended: subscribe(c) that returns the not-connected error inserted
\* its endpoint for c before and hands no receiver to the caller; the
\* endpoint is still the registry's entry for c when the error is returned,
\* open and with no receiver alive on it, so that is_subscribed(c) is true
\* and c is in active_subscriptions, unless another call took the endpoint
\* out of the registry between the insert and the return.
C27_FailedSubscribeLeavesEntry ==
    [][\A t \in DOMAIN pc :
            SubscribeFailsUnconnected(t) =>
                /\ sender = 0
                /\ receivers'[trx[t]].st = "dropped"
                /\ OwnEndpoint(t) \in Eps
                /\ endpoints[OwnEndpoint(t)].channel = targ[t]
                /\ endpoints' = endpoints /\ subscriptions' = subscriptions
                /\ \/ endpoints[OwnEndpoint(t)].closed
                   \/ /\ subscriptions[targ[t]] = OwnEndpoint(t)
                      /\ \E c \in Channels :
                            c = targ[t] /\ is_subscribed(c)' /\ c \in active_subscriptions'
                      /\ RxCount(receivers', OwnEndpoint(t)) = 0]_vars

\* subscribe on a client that never connected has just returned the
\* not-connected error: the channel is registered with an open endpoint
\* that no receiver is alive on
C27_Witness ==
    /\ NeverConnected
    /\ ret = Returned("subscribe", "not_connected")
    /\ is_subscribed("orderbook/0xA")
    /\ active_subscriptions = {"orderbook/0xA"}
    /\ ~endpoints[subscriptions["orderbook/0xA"]].closed
    /\ RxCount(receivers, subscriptions["orderbook/0xA"]) = 0

\* the client was disconnected from transport m and has connected again
ReconnectedAfter(m) == CloseSent(m) /\ sender \notin {0, m}

\* the loop of transport m takes an item of its stream
LoopStep(m) ==
    \/ \E frame \in ControlFrames : LoopControl(m, frame)
    \/ \E c \in WireChannels : LoopEventFrom(m, c)

\* a connect call starts
ConnectStarts == mutOp = "none" /\ mutOp' = "connect"

\* C28 as stated: after a disconnect from transport m and a successful
\* connect, no step of the loop of transport m changes the status, and the
\* status leaves Connected only when the current transport delivers a Close
\* frame or an error or when disconnect (or another connect) is called.
C28_OldLoopNeverChangesStatus ==
    [][\A m \in MoreConns :
        ReconnectedAfter(m) =>
            /\ LoopStep(m) => connection_status' = connection_status
            /\ (is_connected /\ ~is_connected') =>
                    \/ DisconnectStep
                    \/ ConnectStarts
                    \/ \E frame \in {CloseFrame, TransportError} : LoopControl(sender, frame)]_vars

\* C28, what holds instead: the status leaves Connected only in a step of
\* disconnect, at the start of a connect, or when the loop of some
\* transport, current or replaced, takes a Close frame or an error.
C28_StatusWriters ==
    [][(is_connected /\ ~is_connected') =>
            \/ DisconnectStep
            \/ ConnectStarts
            \/ \E n \in MoreConns, frame \in {CloseFrame, TransportError} :
                    LoopControl(n, frame)]_vars

\* no call since the second connect returned Ok, its transport's loop
\* running, the close frame sent on the first transport: the loop of the
\* first transport has ended and the status is no longer Connected
C28_StatusLostOnLiveTransport ==
    /\ ret = Returned("connect", "ok")
    /\ mutOp = "none"
    /\ sender = 2 /\ loops[2] = "running"
    /\ ReconnectedAfter(1) /\ loops[1] = "done"
    /\ connection_status \in {"Disconnected", "Failed"}

\* the whole control frames for channel c on the wire, in the order written
FramesFor(c) ==
    SelectSeq(wire.out, LAMBDA ch : ch.part = "tail" /\ ch.json.channel = c)

\* a subscribe(c) and an unsubscribe(c) have both written their frame, so
\* both return Ok, and no call is in progress
BothSucceeded(c) ==
    /\ \A t \in WireTasks : pc[t] = "idle"
    /\ wire.holders = {}
    /\ Len(FramesFor(c)) = 2
    /\ {FramesFor(c)[1].json.type, FramesFor(c)[2].json.type} = {"subscribe", "unsubscribe"}

\* C29 as stated: once a subscribe(c) and an unsubscribe(c) on a connected
\* client have both succeeded, c has a registry entry exactly when the last
\* control frame written for c is Subscribe.
C29_RegistryAgreesWithWire ==
    \A c \in WireChannels :
        BothSucceeded(c) =>
            (c \in active_subscriptions <=> FramesFor(c)[2].json.type = "subscribe")

\* both calls have returned Ok, the last frame on the wire for the channel
\* is Subscribe, the caller holds the receiver of the subscribe, and the
\* registry has no entry for the channel
C29_SubscribedOnWireOnly ==
    \E c \in WireChannels :
        /\ BothSucceeded(c)
        /\ FramesFor(c)[2].json.type = "subscribe"
        /\ c \notin active_subscriptions
        /\ \E r \in Rxs : receivers[r].st = "user"

\* the stream of transport n yields None
StreamEnds(n) == LoopControl(n, EndOfStream)

\* C30: when the stream of a transport ends without a Close frame or an
\* error, its loop terminates and the step changes neither the status, nor
\* the registry, the endpoints, the receivers or the send handle; the
\* status it leaves is the one it found, Connected included.
C30_EndOfStreamLeavesStatus ==
    [][\A n \in Conns :
            StreamEnds(n) =>
                /\ loops[n] = "running" /\ loops'[n] = "done"
                /\ UNCHANGED <<connection_status, sender, subscriptions, endpoints, receivers>>
                /\ is_connected => is_connected']_vars

\* the stream has ended: no loop runs, the status is still Connected, the
\* handle is stored, and a channel is registered with a receiver in the
\* caller's hands that waits on an open endpoint
C30_Witness ==
    /\ is_connected
    /\ sender # 0
    /\ \A n \in Conns : loops[n] = "done"
    /\ \E r \in Rxs :
          /\ receivers[r].st = "user"
          /\ ~endpoints[receivers[r].ep].closed
          /\ endpoints[receivers[r].ep].channel \in active_subscriptions
          /\ NextRecv[r].kind = "empty"
====
